---- MODULE Spec2Model ----
(***************************************************************************)
(* A model of zilant_prime_core/zilfs.py: the directory <-> container      *)
(* codec (pack_dir, pack_dir_stream, unpack_dir, _safe_extract), the       *)
(* snapshot / diff engine (snapshot_container, diff_snapshots) and the     *)
(* staging-directory file system ZilantFS with its registry ACTIVE_FS.     *)
(*                                                                         *)
(* Paths are strings, as in the code.  File content is a run-length        *)
(* encoded byte string (a sequence of [b, n] runs: n bytes of value b), so *)
(* that a file one byte above the 1 MiB sparse threshold is an ordinary    *)
(* value.  sha256 is modelled as injective on content.                     *)
(***************************************************************************)
EXTENDS Integers, Sequences, FiniteSets, TLC

\* ------------------------------------------------------------------ bounds
MaxSessions == 2
MaxSteps == 3
MaxSnapSteps == 5
MaxFiles == 3
MaxFds == 1

\* ------------------------------------------------------- program constants
SPARSE_LIMIT == 1048576
HEADER_LIMIT == 4096

\* Python's None, for the optional strings of the model
NoneV == "<None>"

\* v evaluated once and handed to F: the model's "let"
Bind(v, F(_)) == CHOOSE y \in {F(x) : x \in {v}} : TRUE

\* ================================================================ strings
StartsWith(s, p) == Len(p) <= Len(s) /\ SubSeq(s, 1, Len(p)) = p

RECURSIVE SplitFrom(_, _, _)
\* the segments of s[i..] around "/", cur being the segment read so far
SplitFrom(s, i, cur) ==
    IF i > Len(s) THEN <<cur>>
    ELSE IF SubSeq(s, i, i) = "/" THEN <<cur>> \o SplitFrom(s, i + 1, "")
    ELSE SplitFrom(s, i + 1, cur \o SubSeq(s, i, i))

Split(s) == SplitFrom(s, 1, "")

RECURSIVE JoinSegs(_)
JoinSegs(segs) ==
    IF segs = <<>> THEN ""
    ELSE IF Len(segs) = 1 THEN segs[1]
    ELSE segs[1] \o "/" \o JoinSegs(Tail(segs))

RECURSIVE NormSegs(_, _)
\* os.path.normpath on the segments: "" and "." vanish, ".." pops (stays at /)
NormSegs(segs, acc) ==
    IF segs = <<>> THEN acc
    ELSE LET h == Head(segs) IN
         IF h = "" \/ h = "." THEN NormSegs(Tail(segs), acc)
         ELSE IF h = ".." THEN
              NormSegs(Tail(segs), IF acc = <<>> THEN acc ELSE SubSeq(acc, 1, Len(acc) - 1))
         ELSE NormSegs(Tail(segs), Append(acc, h))

\* Path.__truediv__: an absolute right operand replaces the left one
PathJoin(base, name) == IF StartsWith(name, "/") THEN name ELSE base \o "/" \o name

\* Path.resolve() of an absolute path in a tree without symlinks
Resolve(p) == "/" \o JoinSegs(NormSegs(Split(p), <<>>))

\* a relative path in normal form ("" is the root itself)
NormRel(p) == JoinSegs(NormSegs(Split(p), <<>>))

\* the parent of a normal relative path ("" for a top-level name)
Parent(p) == LET s == Split(p) IN JoinSegs(SubSeq(s, 1, Len(s) - 1))

\* ================================================================ content
\* A byte value is named by a string: "00" is the zero byte, a character is
\* its own (ASCII) byte, other bytes carry their two hex digits.
Run(b, n) == [b |-> b, n |-> n]

RECURSIVE CLen(_)
CLen(c) == IF c = <<>> THEN 0 ELSE Head(c).n + CLen(Tail(c))

RECURSIVE CNorm(_)
\* canonical form: no empty run, no two adjacent runs of the same byte
CNorm(c) ==
    IF c = <<>> THEN <<>>
    ELSE IF Head(c).n = 0 THEN CNorm(Tail(c))
    ELSE Bind(CNorm(Tail(c)), LAMBDA r :
            IF r # <<>> /\ Head(r).b = Head(c).b
            THEN <<Run(Head(c).b, Head(c).n + Head(r).n)>> \o Tail(r)
            ELSE <<Head(c)>> \o r)

CCat(x, y) == CNorm(x \o y)

RECURSIVE CTake(_, _)
\* the first k bytes (all of c when it is shorter)
CTake(c, k) ==
    IF c = <<>> \/ k <= 0 THEN <<>>
    ELSE IF Head(c).n <= k THEN <<Head(c)>> \o CTake(Tail(c), k - Head(c).n)
    ELSE <<Run(Head(c).b, k)>>

RECURSIVE CDrop(_, _)
\* what follows the first k bytes
CDrop(c, k) ==
    IF c = <<>> THEN <<>>
    ELSE IF k <= 0 THEN c
    ELSE IF Head(c).n <= k THEN CDrop(Tail(c), k - Head(c).n)
    ELSE <<Run(Head(c).b, Head(c).n - k)>> \o Tail(c)

Zeros(n) == IF n <= 0 THEN <<>> ELSE <<Run("00", n)>>

\* ftruncate: cut, or extend with zero bytes
Truncated(c, size) ==
    IF size <= CLen(c) THEN CNorm(CTake(c, size)) ELSE CCat(c, Zeros(size - CLen(c)))

\* lseek(offset) + write(data): a hole before offset reads as zeros
WrittenAt(c, offset, data) ==
    CCat(CCat(Truncated(CTake(c, offset), offset), data), CDrop(c, offset + CLen(data)))

\* lseek(offset) + read(size)
ReadAt(c, offset, size) == CNorm(CTake(CDrop(c, offset), size))

\* ================================================================== trees
\* A tree maps the relative paths that exist to nodes.
DirNode == [kind |-> "dir", data |-> <<>>]
FileNode(c) == [kind |-> "file", data |-> c]
EmptyTree == [p \in {} |-> DirNode]

IsDir(t, p) == p = "" \/ (p \in DOMAIN t /\ t[p].kind = "dir")
IsFile(t, p) == p \in DOMAIN t /\ t[p].kind = "file"
Exists(t, p) == p = "" \/ p \in DOMAIN t

\* the paths of t strictly below p
Below(t, p) == {q \in DOMAIN t : p = "" \/ StartsWith(q, p \o "/")}

\* ---------------------------------------------- ordering of paths (sorted)
\* the characters of the model's names in code-point order
Alphabet == "./0123456789_abcdefghijklmnopqrstuvwxyz"
CharIdx(ch) == CHOOSE i \in 1..Len(Alphabet) : SubSeq(Alphabet, i, i) = ch

RECURSIVE StrLess(_, _)
StrLess(s, t) ==
    IF t = "" THEN FALSE
    ELSE IF s = "" THEN TRUE
    ELSE LET a == CharIdx(SubSeq(s, 1, 1))
             b == CharIdx(SubSeq(t, 1, 1)) IN
         IF a # b THEN a < b
         ELSE StrLess(SubSeq(s, 2, Len(s)), SubSeq(t, 2, Len(t)))

RECURSIVE SegsLess(_, _)
\* PurePath.__lt__: the lists of parts compared lexicographically
SegsLess(a, b) ==
    IF b = <<>> THEN FALSE
    ELSE IF a = <<>> THEN TRUE
    ELSE IF Head(a) # Head(b) THEN StrLess(Head(a), Head(b))
    ELSE SegsLess(Tail(a), Tail(b))

PathLess(p, q) == SegsLess(Split(p), Split(q))

RECURSIVE SortPaths(_)
SortPaths(S) ==
    IF S = {} THEN <<>>
    ELSE Bind(CHOOSE p \in S : \A q \in S \ {p} : PathLess(p, q),
              LAMBDA m : <<m>> \o SortPaths(S \ {m}))

\* =============================================================== archives
\* A tar member; sparse holds the value of the ZIL_SPARSE_SIZE pax header: <<n>>,
\* or <<>> when the member has none.
Member(name, kind, data, sparse) ==
    [name |-> name, kind |-> kind, data |-> data, sparse |-> sparse]

\* A tar file: its members, and whether it is a tar file at all (an empty byte
\* stream is not: tarfile.open raises ReadError on it).
Archive(members) == [valid |-> TRUE, members |-> members]
NoArchive == [valid |-> FALSE, members |-> <<>>]

\* TarFile.add(name, arcname), recursive: the entry itself, then its children in
\* sorted order, each added the same way
TarAdd(t, p, arcname) ==
    <<Member(arcname, IF p = "" THEN "dir" ELSE t[p].kind, IF p = "" THEN <<>> ELSE t[p].data, <<>>)>>
    \o (IF IsDir(t, p)
        THEN Bind(SortPaths(Below(t, p)), LAMBDA sub :
               [i \in 1..Len(sub) |->
                  Member(arcname \o "/"
                           \o (IF p = "" THEN sub[i] ELSE SubSeq(sub[i], Len(p) + 2, Len(sub[i]))),
                         t[sub[i]].kind, t[sub[i]].data, <<>>)])
        ELSE <<>>)

\* pack_dir's archive: tar.add(src, arcname=".")
BufferedArchive(t) == Archive(TarAdd(t, "", "."))

\* the sparse test of pack_dir_stream: stored whole up to the limit
StoredWhole(size) == size <= SPARSE_LIMIT

RECURSIVE StreamMembers(_, _)
\* pack_dir_stream's own loop over sorted(src.rglob("*"))
StreamMembers(t, ps) ==
    IF ps = <<>> THEN <<>>
    ELSE LET f == Head(ps) IN
         (IF t[f].kind = "dir" THEN TarAdd(t, f, f)
          ELSE IF StoredWhole(CLen(t[f].data)) THEN TarAdd(t, f, f)
          ELSE <<Member(f, "file", <<>>, <<CLen(t[f].data)>>)>>)
         \o StreamMembers(t, Tail(ps))

StreamArchive(t) == Archive(StreamMembers(t, SortPaths(DOMAIN t)))

\* ======================================================== safe extraction
\* the absolute path a tree-relative path has under root
Under(root, q) == StartsWith(q, root \o "/")
RelTo(root, q) == SubSeq(q, Len(root) + 2, Len(q))

AbsParent(p) == LET q == Parent(p) IN IF q = "" THEN "/" ELSE q

RECURSIVE WithParents(_, _)
\* os.makedirs of the missing ancestors of p
WithParents(fs, p) ==
    LET q == AbsParent(p) IN
    IF q = "/" \/ q \in DOMAIN fs THEN fs
    ELSE WithParents(fs, q) @@ (q :> DirNode)

\* tar.extract(m, dest): a directory is created if missing, a file is (re)written
Extract(fs, dest, m) ==
    Bind(Resolve(PathJoin(dest, m.name)), LAMBDA tgt :
       IF m.kind = "dir" /\ tgt \in DOMAIN fs THEN fs
       ELSE (tgt :> (IF m.kind = "dir" THEN DirNode ELSE FileNode(m.data)))
            @@ WithParents(fs, tgt))

\* the test of _safe_extract on one member
InsideRoot(dest, name) == StartsWith(Resolve(PathJoin(dest, name)), Resolve(dest))

RECURSIVE SafeExtract(_, _, _)
\* _safe_extract: members in order; the first one failing the test raises
SafeExtract(fs, dest, ms) ==
    IF ms = <<>> THEN [err |-> "ok", fs |-> fs]
    ELSE IF ~InsideRoot(dest, Head(ms).name)
         THEN [err |-> "PathTraversal", fs |-> fs]
         ELSE SafeExtract(Extract(fs, dest, Head(ms)), dest, Tail(ms))

RECURSIVE RestoreSparse(_, _, _)
\* the second loop of unpack_dir: _truncate_file on every member with the header
RestoreSparse(fs, dest, ms) ==
    IF ms = <<>> THEN [err |-> "ok", fs |-> fs]
    ELSE Bind(Head(ms), LAMBDA m :
         Bind(IF m.sparse = <<>> THEN "" ELSE Resolve(PathJoin(dest, m.name)), LAMBDA tgt :
            IF m.sparse = <<>> THEN RestoreSparse(fs, dest, Tail(ms))
            ELSE IF tgt \notin DOMAIN fs THEN [err |-> "FileNotFoundError", fs |-> fs]
            ELSE IF fs[tgt].kind = "dir" THEN [err |-> "IsADirectoryError", fs |-> fs]
            ELSE RestoreSparse((tgt :> FileNode(Truncated(fs[tgt].data, m.sparse[1]))) @@ fs,
                               dest, Tail(ms))))

\* what a file system holds below root, as a tree
TreeAt(fs, root) ==
    [p \in {RelTo(root, q) : q \in {x \in DOMAIN fs : Under(root, x)}} |-> fs[root \o "/" \o p]]

\* a tree placed below root, root included
Planted(t, root) ==
    [q \in {root} \cup {root \o "/" \o p : p \in DOMAIN t} |->
        IF q = root THEN DirNode ELSE t[RelTo(root, q)]]

\* ======================================================== container codec
\* A container file: the clear metadata header and the encrypted payload.  The
\* payload is what the AEAD service made of an archive: fmt is the transport
\* format of the payload ("buf": one whole ciphertext, "str": a chunked
\* stream), key the key it was sealed with, intact whether its bytes are as
\* written, hlen the length in bytes of the header with its blank-line
\* terminator.  In the header an absent string field is NoneV and an absent
\* snapshots mapping is the empty mapping (the code reads it with get(.., {})).
MetaFields == {"magic", "label", "latest_snapshot_id", "snapshots"}
NoSnaps == [l \in {} |-> 0]
EmptyMeta ==
    [magic |-> NoneV, label |-> NoneV, latest_snapshot_id |-> NoneV, snapshots |-> NoSnaps]

\* an extra_meta argument: the fields it gives and their values
Extra(given, vals) == [given |-> given, vals |-> vals]
NoExtra == Extra({}, EmptyMeta)

\* dict.update: the fields extra gives replace those of meta
Merged(meta, extra) ==
    [f \in MetaFields |-> IF f \in extra.given THEN extra.vals[f] ELSE meta[f]]

Container(meta, fmt, key, arc) ==
    [meta |-> meta, fmt |-> fmt, key |-> key, arc |-> arc, intact |-> TRUE, hlen |-> 4]

\* container c with its header written hlen bytes long
Padded(c, hlen) == [c EXCEPT !.hlen = hlen]

\* the value standing for "no file at this path"
NoContainer ==
    [meta |-> EmptyMeta, fmt |-> "none", key |-> "", arc |-> NoArchive, intact |-> FALSE,
     hlen |-> 0]

\* Path.is_file / Path.exists of a container path
IsFileC(c) == c.fmt # "none"
FileAt(d, p) == IF p \in DOMAIN d THEN d[p] ELSE NoContainer

\* container.get_metadata: the header of the file
get_metadata(c) == c.meta

\* container.pack_file(src, dest, key, extra_meta): a new buffered container
\* with a fresh header, extra_meta merged in, replacing dest wholesale
pack_file(arc, key, extra) ==
    Container(Merged([EmptyMeta EXCEPT !.magic = "ZILANT"], extra), "buf", key, arc)

\* streaming_aead.pack_stream(src, dest, key): a new streamed container
pack_stream(arc, key) ==
    Container([EmptyMeta EXCEPT !.magic = "ZSTR"], "str", key, arc)

\* the AEAD service: decryption fails on another key or on changed bytes
Opens(c, key) == c.key = key /\ c.intact

\* the bound of the header format: at most 4096 bytes, terminator included
HeaderFits(c) == c.hlen <= HEADER_LIMIT

\* container.unpack_file: decodes a buffered payload only, under a header
\* within the bound
unpack_file(c, key) ==
    IF c.fmt # "buf" \/ ~HeaderFits(c) THEN [err |-> "FormatError", arc |-> NoArchive]
    ELSE IF ~Opens(c, key) THEN [err |-> "InvalidTag", arc |-> NoArchive]
    ELSE [err |-> "ok", arc |-> c.arc]

\* streaming_aead.unpack_stream: decodes a streamed payload only, under a
\* header within the bound
unpack_stream(c, key) ==
    IF c.fmt # "str" \/ ~HeaderFits(c) THEN [err |-> "FormatError", arc |-> NoArchive]
    ELSE IF ~Opens(c, key) THEN [err |-> "InvalidTag", arc |-> NoArchive]
    ELSE [err |-> "ok", arc |-> c.arc]

\* _read_meta: the header as a dict.  The scan stops at the terminator or at
\* 4096 bytes; what it then holds of a longer header is a proper prefix of the
\* JSON object, json.loads raises on it, and the except clause returns {}.
ReadMeta(c) == IF c.hlen > HEADER_LIMIT THEN EmptyMeta ELSE c.meta

\* ---------------------------------------------------------------- pack_dir
\* A source directory: whether it exists, and the tree it holds.
Dir(t) == [exists |-> TRUE, tree |-> t]
NoDir == [exists |-> FALSE, tree |-> EmptyTree]

\* pack_dir(src, dest, key); destOK: the directory holding dest exists.
\* The result is the error raised ("ok" for none) and the container written.
pack_dir(src, key, destOK) ==
    IF ~src.exists THEN [err |-> "FileNotFoundError", c |-> NoContainer]
    ELSE IF ~destOK THEN [err |-> "FileNotFoundError", c |-> NoContainer]
    ELSE [err |-> "ok", c |-> pack_file(BufferedArchive(src.tree), key, NoExtra)]

\* what `tar -C src -cf fifo .` feeds the pipe: the whole tree below ".", or no
\* byte at all when it cannot enter src
TarProcess(src) == IF src.exists THEN BufferedArchive(src.tree) ELSE NoArchive

\* rglob on a missing directory yields nothing: an archive without members
OwnArchive(src) == IF src.exists THEN StreamArchive(src.tree) ELSE Archive(<<>>)

\* pack_dir_stream: through tar and a FIFO where os.mkfifo exists, else through
\* its own archive loop
pack_dir_stream(src, key, destOK, fifo) ==
    IF ~destOK THEN [err |-> "FileNotFoundError", c |-> NoContainer]
    ELSE [err |-> "ok",
          c |-> pack_stream(IF fifo THEN TarProcess(src) ELSE OwnArchive(src), key)]

\* -------------------------------------------------------------- unpack_dir
\* a choice of decoder that never takes the streamed one
UseStream_never(meta) == FALSE

\* which decoder unpack_dir takes
UseStream(meta) == meta.magic = "ZSTR"

\* an except clause that lets the decoder's failure pass
DecodeError_passed(err) == IF err = "InvalidTag" THEN "ok" ELSE err

\* the except clause of unpack_dir: InvalidTag is raised again as ValueError,
\* any other error of the decoder goes through as it is
DecodeError(err) == IF err = "InvalidTag" THEN "ValueError" ELSE err

\* unpack_dir(container, dest, key) on file system fs.
\* The result is the error raised and the file system left behind.
unpack_dir(c, fs, dest, key) ==
    IF ~IsFileC(c) THEN [err |-> "FileNotFoundError", fs |-> fs]
    ELSE Bind(IF UseStream(ReadMeta(c)) THEN unpack_stream(c, key) ELSE unpack_file(c, key),
              LAMBDA dec :
         IF DecodeError(dec.err) # "ok" THEN [err |-> DecodeError(dec.err), fs |-> fs]
         ELSE IF ~dec.arc.valid THEN [err |-> "ReadError", fs |-> fs]
         ELSE Bind(SafeExtract(fs, dest, dec.arc.members), LAMBDA ex :
                 IF ex.err # "ok" THEN ex
                 ELSE RestoreSparse(ex.fs, dest, dec.arc.members)))

\* unpack_dir into a fresh temporary directory: the error and the tree found there
Scratch == "/s"
UnpackedTree(c, key) ==
    Bind(unpack_dir(c, Planted(EmptyTree, Scratch), Scratch, key),
         LAMBDA r : [err |-> r.err, tree |-> TreeAt(r.fs, Scratch)])

\* ========================================================= snapshot / diff
\* _rewrite_meta(c, extra, key): unpack_file, then pack_file over the same path
rewrite_meta(c, extra, key) ==
    IF ~IsFileC(c) THEN [err |-> "FileNotFoundError", c |-> c]
    ELSE Bind(unpack_file(c, key), LAMBDA u :
           IF u.err # "ok" THEN [err |-> u.err, c |-> c]
           ELSE [err |-> "ok", c |-> pack_file(u.arc, key, extra)])

\* Path.with_name(f"{stem}_{label}{suffix}"); container paths are kept without
\* their ".zil" suffix
SnapPath(path, label) == path \o "_" \o label

\* snapshot_container(container, key, label) at time ts on disk d.
\* The result is the error raised, the disk left behind and the path returned.
snapshot_container(d, path, key, label, ts) ==
    Bind(FileAt(d, path), LAMBDA c :
    IF ~IsFileC(c) THEN [err |-> "FileNotFoundError", disk |-> d, out |-> NoneV]
    ELSE
    \* snaps, and {**snaps, label: ts}
    Bind((label :> ts) @@ get_metadata(c).snapshots, LAMBDA both :
    \* unpack_dir(container, d, key)
    Bind(UnpackedTree(c, key), LAMBDA up :
    IF up.err # "ok" THEN [err |-> up.err, disk |-> d, out |-> NoneV]
    ELSE
    \* pack_dir(d, out, key)
    Bind(pack_dir(Dir(up.tree), key, TRUE), LAMBDA packed :
    \* _rewrite_meta(out, ...)
    Bind(rewrite_meta(packed.c,
             Extra({"label", "latest_snapshot_id", "snapshots"},
                   [EmptyMeta EXCEPT !.label = label, !.latest_snapshot_id = label,
                                     !.snapshots = both]), key), LAMBDA r1 :
    IF r1.err # "ok"
    THEN [err |-> r1.err, disk |-> (SnapPath(path, label) :> packed.c) @@ d, out |-> NoneV]
    ELSE
    \* _rewrite_meta(container, ...)
    Bind(rewrite_meta(c,
             Extra({"latest_snapshot_id", "snapshots"},
                   [EmptyMeta EXCEPT !.latest_snapshot_id = label, !.snapshots = both]),
             key), LAMBDA r2 :
    IF r2.err # "ok"
    THEN [err |-> r2.err, disk |-> (SnapPath(path, label) :> r1.c) @@ d, out |-> NoneV]
    ELSE [err |-> "ok",
          disk |-> (path :> r2.c) @@ ((SnapPath(path, label) :> r1.c) @@ d),
          out |-> SnapPath(path, label)]))))))

\* sha256(...).hexdigest(), taken to be injective: the digest names the content
Hash(data) == <<"sha256", data>>
NoHash == <<"">>

\* a walk that stops at the files of the top directory
hash_tree_top(t) ==
    [p \in {q \in DOMAIN t : t[q].kind = "file" /\ Parent(q) = ""} |-> Hash(t[p].data)]

\* _hash_tree: the digest of every regular file, by relative path
hash_tree(t) == [p \in {q \in DOMAIN t : t[q].kind = "file"} |-> Hash(t[p].data)]

\* dict.get(n, ""): the digest, or the empty string
HashOr(h, n) == IF n \in DOMAIN h THEN h[n] ELSE NoHash

\* a comprehension that ranges over the paths of the first tree only
DiffNames_left(h1, h2) == DOMAIN h1

\* the paths the comprehension of diff_snapshots ranges over
DiffNames(h1, h2) == DOMAIN h1 \cup DOMAIN h2

\* h1.get(n) != h2.get(n): None on a missing side
Differs(h1, h2, n) ==
    \/ (n \in DOMAIN h1) # (n \in DOMAIN h2)
    \/ (n \in DOMAIN h1 /\ n \in DOMAIN h2 /\ h1[n] # h2[n])

\* diff_snapshots(a, b, key): the error raised and the mapping returned
diff_snapshots(a, b, key) ==
    Bind(UnpackedTree(a, key), LAMBDA u1 :
    IF u1.err # "ok" THEN [err |-> u1.err, diff |-> NoSnaps]
    ELSE
    Bind(UnpackedTree(b, key), LAMBDA u2 :
    IF u2.err # "ok" THEN [err |-> u2.err, diff |-> NoSnaps]
    ELSE
    Bind(hash_tree(u1.tree), LAMBDA h1 :
    Bind(hash_tree(u2.tree), LAMBDA h2 :
       [err |-> "ok",
        diff |-> [n \in {m \in DiffNames(h1, h2) : Differs(h1, h2, m)} |->
                     <<HashOr(h1, n), HashOr(h2, n)>>]]))))

\* ================================================================ ZilantFS
\* str.encode("utf-8") of an ASCII text, and a byte string given byte by byte
Text(s) == CNorm([i \in 1..Len(s) |-> Run(SubSeq(s, i, i), 1)])
Bytes(bs) == CNorm([i \in 1..Len(bs) |-> Run(bs[i], 1)])

\* U+2011 and U+1F680 in UTF-8
Hyphen == Bytes(<<"e2", "80", "91">>)
Rocket == Bytes(<<"f0", "9f", "9a", "80">>)

\* _DECOY_PROFILES, each with the directories p.parent.mkdir creates
DecoyNames == {"minimal", "adaptive"}
DecoyTree(profile) ==
    IF profile = "minimal"
    THEN ("dummy.txt" :> FileNode(Text("lorem ipsum")))
    ELSE ("readme.md" :> FileNode(CCat(Text("adaptive"), CCat(Hyphen, Text("decoy")))))
      @@ ("docs" :> DirNode)
      @@ ("docs/guide.txt" :>
             FileNode(CCat(Rocket, CCat(Text(" quick"), CCat(Hyphen, Text("start"))))))
      @@ ("img" :> DirNode)
      @@ ("img/banner.png" :> FileNode(Text("PLACEHOLDER")))
      @@ ("img/icon.png" :> FileNode(Text("PLACEHOLDER")))
      @@ ("notes" :> DirNode)
      @@ ("notes/todo.txt" :> FileNode(Text("1. stay awesome")))
      @@ ("logs" :> DirNode)
      @@ ("logs/decoy.log" :> FileNode(Text("INIT")))

VARIABLES
    disk,       \* the container files: path -> container
    cdir,       \* whether the directory holding the containers exists
    sess,       \* the ZilantFS objects: id -> fields
    ACTIVE_FS,  \* the registry, a list of session ids
    fds,        \* the process's open file descriptors: fd -> description
    stream,     \* os.getenv("ZILANT_STREAM") == "1"
    fifo,       \* os.name != "nt" and hasattr(os, "mkfifo")
    clock,      \* int(time.time())
    last,       \* the last call: what it was, the error it raised, what it returned
    steps,      \* calls the run may still make
    probe       \* the input and the result of a direct codec call

vars == <<disk, cdir, sess, ACTIVE_FS, fds, stream, fifo, clock, last, steps, probe>>

\* ------------------------------------------------------------ session state
\* dir is the staging directory self.root (it stops existing at cleanup);
\* made and destroys count the constructor's and destroy's completed runs.
NoSession ==
    [made |-> FALSE, container |-> "", password |-> "", ro |-> FALSE, bytes_rw |-> 0,
     dir |-> NoDir, destroys |-> 0]

Sids == 1..MaxSessions
StagingRoot(sid) == "/tmp/s" \o ToString(sid)

Call(op, sid, err) ==
    [op |-> op, sid |-> sid, err |-> err, num |-> 0, data |-> <<>>, names |-> {}]
NoCall == Call("none", 0, "ok")

\* one more call of the run
Step == steps > 0 /\ steps' = steps - 1
Live(sid) == sess[sid].made

\* the rollback test of the constructor
Truthy(x) == x # NoneV /\ x # ""
RollbackDetected(meta, force) ==
    ~force /\ Truthy(meta.latest_snapshot_id) /\ meta.label # meta.latest_snapshot_id

\* a handler that leaves the session writable
Degraded_never(err) == FALSE

\* the except clause of the constructor: any error of unpack_dir is logged and
\* sets self.ro
Degraded(err) == err # "ok"

\* the staging directory and the ro flag the constructor leaves: the error it
\* raises ("ok" when it returns), ro, and the tree in self.root
Constructed(c, password, decoy, force) ==
    IF RollbackDetected(IF IsFileC(c) THEN get_metadata(c) ELSE EmptyMeta, force)
    THEN [err |-> "RollbackDetected", ro |-> FALSE, tree |-> EmptyTree]
    ELSE IF decoy # NoneV /\ decoy \notin DecoyNames
    THEN [err |-> "ValueError", ro |-> FALSE, tree |-> EmptyTree]
    ELSE IF decoy # NoneV
    THEN [err |-> "ok", ro |-> TRUE, tree |-> DecoyTree(decoy)]
    ELSE IF IsFileC(c)
    THEN Bind(unpack_dir(c, Planted(EmptyTree, "/m"), "/m", password), LAMBDA up :
            [err |-> "ok", ro |-> Degraded(up.err), tree |-> TreeAt(up.fs, "/m")])
    ELSE [err |-> "ok", ro |-> FALSE, tree |-> EmptyTree]

\* a removal that empties the list
Removed_all(seq, x) == <<>>

\* list.remove(x): the first occurrence goes
RECURSIVE Removed(_, _)
Removed(seq, x) ==
    IF seq = <<>> THEN <<>>
    ELSE IF Head(seq) = x THEN Tail(seq)
    ELSE <<Head(seq)>> \o Removed(Tail(seq), x)

InList(seq, x) == \E i \in 1..Len(seq) : seq[i] = x

\* ZilantFS.__init__
Mount(sid, path, password, decoy, force) ==
    /\ Step
    /\ ~sess[sid].made
    /\ \A j \in Sids : j < sid => sess[j].made
    /\ \E r \in {Constructed(FileAt(disk, path), password, decoy, force)} :
       /\ sess' = IF r.err = "ok"
                  THEN [sess EXCEPT ![sid] =
                          [made |-> TRUE, container |-> path, password |-> password,
                           ro |-> r.ro, bytes_rw |-> 0, dir |-> Dir(r.tree), destroys |-> 0]]
                  ELSE sess
       /\ ACTIVE_FS' = IF r.err = "ok" THEN Append(ACTIVE_FS, sid) ELSE ACTIVE_FS
       /\ last' = [Call("mount", sid, r.err) EXCEPT !.names = {path}]
    /\ UNCHANGED <<disk, cdir, fds, stream, fifo, clock, probe>>

\* a check that lets every call through
rw_check_off(s) == "ok"

\* _rw_check: the error a write-class call raises first ("ok": none)
rw_check(s) == IF s.ro THEN "EACCES" ELSE "ok"

\* a teardown that packs whatever the session's ro flag
Repacked_any(s, str, ff, destOK) ==
    Bind(pack_dir(s.dir, s.password, destOK), LAMBDA r :
       [err |-> "ok", wrote |-> r.err = "ok", c |-> r.c])

\* a teardown that packs nothing
Repacked_skips(s, str, ff, destOK) == [err |-> "ok", wrote |-> FALSE, c |-> NoContainer]

\* the re-pack of destroy: the error it lets through and the container written
Repacked(s, str, ff, destOK) ==
    IF s.ro THEN [err |-> "ok", wrote |-> FALSE, c |-> NoContainer]
    ELSE Bind(IF str THEN pack_dir_stream(s.dir, s.password, destOK, ff)
                     ELSE pack_dir(s.dir, s.password, destOK), LAMBDA r :
           IF r.err = "FileNotFoundError"
           THEN [err |-> "ok", wrote |-> FALSE, c |-> NoContainer]
           ELSE [err |-> r.err, wrote |-> r.err = "ok", c |-> r.c])

\* ------------------------------------------------------- file descriptors
\* os.open's descriptor: the session whose staging directory holds the file, its
\* path there, the access it gives.  When the file is removed while open, the
\* descriptor keeps the content: orph then names the removed file (descriptors
\* with the same orph share it) and data is its content.
Fd(sid, path, isdir, rd, wr) ==
    [sid |-> sid, path |-> path, isdir |-> isdir, rd |-> rd, wr |-> wr,
     orph |-> "", data |-> <<>>]
Orphaned(f, orph, data) == [f EXCEPT !.orph = orph, !.data = data]

\* the name of the next file removed while open
FreshOrph(tab) ==
    "u" \o ToString(CHOOSE n \in 1..(MaxFds + 1) :
                      /\ \A k \in DOMAIN tab : tab[k].orph # "u" \o ToString(n)
                      /\ \A m \in 1..(n - 1) : \E k \in DOMAIN tab : tab[k].orph = "u" \o ToString(m))

\* the descriptors after the file at path of session sid is removed
Detached(tab, sid, path, data) ==
    LET key == FreshOrph(tab) IN
    [k \in DOMAIN tab |->
        IF tab[k].sid = sid /\ tab[k].path = path /\ tab[k].orph = "" /\ ~tab[k].isdir
        THEN Orphaned(tab[k], key, data) ELSE tab[k]]

\* the content a descriptor reads
FdData(f) == IF f.orph # "" THEN f.data ELSE sess[f.sid].dir.tree[f.path].data

\* ZilantFS.destroy
Destroy(sid) ==
    /\ Step
    /\ sess[sid].made
    /\ \E s \in {sess[sid]}, r \in {Repacked(sess[sid], stream, fifo, cdir)} :
       /\ disk' = IF r.wrote THEN (s.container :> r.c) @@ disk ELSE disk
       /\ sess' = [sess EXCEPT ![sid].dir = NoDir, ![sid].destroys = s.destroys + 1]
       /\ fds' = [k \in DOMAIN fds |->
                    IF fds[k].sid = sid /\ fds[k].orph = "" /\ ~fds[k].isdir
                    THEN Orphaned(fds[k], StagingRoot(sid) \o "/" \o fds[k].path,
                                  s.dir.tree[fds[k].path].data)
                    ELSE fds[k]]
       /\ ACTIVE_FS' = Removed(ACTIVE_FS, sid)
       /\ last' = Call("destroy", sid, r.err)
    /\ UNCHANGED <<cdir, stream, fifo, clock, probe>>

\* ------------------------------------------------- the staging file system
\* _full: self.root / path.lstrip("/"), as a path relative to the root
RECURSIVE LStrip(_)
LStrip(path) == IF StartsWith(path, "/") THEN LStrip(SubSeq(path, 2, Len(path))) ELSE path
Full(path) == NormRel(LStrip(path))

BaseName(p) == LET x == Split(p) IN x[Len(x)]
Children(t, p) == {q \in DOMAIN t : Parent(q) = p}

\* the errno of looking a path up: a missing component, or a file used as one
RECURSIVE LookupErr(_, _)
LookupErr(d, p) ==
    IF ~d.exists THEN "ENOENT"
    ELSE IF p = "" THEN "ok"
    ELSE LET up == LookupErr(d, Parent(p)) IN
         IF up # "ok" THEN up
         ELSE IF ~IsDir(d.tree, Parent(p)) THEN "ENOTDIR"
         ELSE IF p \notin DOMAIN d.tree THEN "ENOENT"
         ELSE "ok"

\* the errno of reaching the directory that is to hold p
ParentErr(d, p) ==
    IF ~d.exists THEN "ENOENT"
    ELSE IF p = "" THEN "ok"
    ELSE LET up == LookupErr(d, Parent(p)) IN
         IF up # "ok" THEN up
         ELSE IF ~IsDir(d.tree, Parent(p)) THEN "ENOTDIR" ELSE "ok"

\* open(2) flags: acc is "r", "w" or "rw" (O_RDONLY, O_WRONLY, O_RDWR)
Flags(acc, creat, trunc) == [acc |-> acc, creat |-> creat, trunc |-> trunc]
Readable(fl) == fl.acc \in {"r", "rw"}
Writable(fl) == fl.acc \in {"w", "rw"}

\* os.open(full, flags) on staging directory d: errno, the directory after it,
\* and whether a directory was opened
os_open(d, p, fl) ==
    Bind(ParentErr(d, p), LAMBDA perr :
    IF perr # "ok" THEN [err |-> perr, dir |-> d, isdir |-> FALSE]
    ELSE IF IsDir(d.tree, p)
    THEN IF Writable(fl) \/ fl.creat THEN [err |-> "EISDIR", dir |-> d, isdir |-> TRUE]
         ELSE [err |-> "ok", dir |-> d, isdir |-> TRUE]
    ELSE IF p \in DOMAIN d.tree
    THEN [err |-> "ok",
          dir |-> IF fl.trunc /\ Writable(fl)
                  THEN Dir((p :> FileNode(<<>>)) @@ d.tree) ELSE d,
          isdir |-> FALSE]
    ELSE IF fl.creat THEN [err |-> "ok", dir |-> Dir((p :> FileNode(<<>>)) @@ d.tree), isdir |-> FALSE]
    ELSE [err |-> "ENOENT", dir |-> d, isdir |-> FALSE])

FreeFd == CHOOSE k \in 1..MaxFds : k \notin DOMAIN fds /\ \A j \in 1..(k - 1) : j \in DOMAIN fds

\* what an os.open through session sid does to the state
Opened(op, sid, path, fl, err0) ==
    IF err0 # "ok"
    THEN /\ last' = Call(op, sid, err0)
         /\ UNCHANGED <<sess, fds>>
    ELSE \E r \in {os_open(sess[sid].dir, Full(path), fl)}, k \in {FreeFd} :
         /\ sess' = [sess EXCEPT ![sid].dir = r.dir]
         /\ fds' = IF r.err = "ok"
                   THEN (k :> Fd(sid, Full(path), r.isdir, Readable(fl), Writable(fl))) @@ fds
                   ELSE fds
         /\ last' = [Call(op, sid, r.err) EXCEPT !.num = IF r.err = "ok" THEN k ELSE 0]

Frame == UNCHANGED <<disk, cdir, ACTIVE_FS, stream, fifo, clock, probe>>

\* ZilantFS.getattr
GetAttr(sid, path) ==
    /\ Step /\ Live(sid)
    /\ \E d \in {sess[sid].dir}, p \in {Full(path)} :
       \E e \in {LookupErr(d, p)} :
       last' = IF e # "ok" THEN Call("getattr", sid, e)
               ELSE [Call("getattr", sid, "ok") EXCEPT
                       !.num = IF IsDir(d.tree, p) THEN 0 ELSE CLen(d.tree[p].data),
                       !.names = {IF IsDir(d.tree, p) THEN "S_IFDIR" ELSE "S_IFREG"}]
    /\ UNCHANGED <<sess, fds>> /\ Frame

\* ZilantFS.readdir
ReadDir(sid, path) ==
    /\ Step /\ Live(sid)
    /\ \E d \in {sess[sid].dir}, p \in {Full(path)} :
       \E e \in {LookupErr(d, p)} :
       last' = IF e # "ok" THEN Call("readdir", sid, e)
               ELSE IF ~IsDir(d.tree, p) THEN Call("readdir", sid, "ENOTDIR")
               ELSE [Call("readdir", sid, "ok") EXCEPT
                       !.names = {".", ".."} \cup {BaseName(q) : q \in Children(d.tree, p)}]
    /\ UNCHANGED <<sess, fds>> /\ Frame

\* ZilantFS.open
Open(sid, path, fl) ==
    /\ Step /\ Live(sid)
    /\ Cardinality(DOMAIN fds) < MaxFds
    /\ Opened("open", sid, path, fl, "ok")
    /\ Frame

\* ZilantFS.create
Create(sid, path) ==
    /\ Step /\ Live(sid)
    /\ Cardinality(DOMAIN fds) < MaxFds
    /\ Opened("create", sid, path, Flags("w", TRUE, TRUE), rw_check(sess[sid]))
    /\ Frame

\* ZilantFS.read
Read(sid, size, offset, fh) ==
    /\ Step /\ Live(sid)
    /\ IF fh \notin DOMAIN fds \/ ~fds[fh].rd
       THEN last' = Call("read", sid, "EBADF") /\ UNCHANGED sess
       ELSE IF fds[fh].isdir
       THEN last' = Call("read", sid, "EISDIR") /\ UNCHANGED sess
       ELSE LET data == ReadAt(FdData(fds[fh]), offset, size) IN
            /\ sess' = [sess EXCEPT ![sid].bytes_rw = @ + CLen(data)]
            /\ last' = [Call("read", sid, "ok") EXCEPT !.data = data, !.num = CLen(data)]
    /\ UNCHANGED fds /\ Frame

\* ZilantFS.write
Write(sid, data, offset, fh) ==
    /\ Step /\ Live(sid)
    /\ IF rw_check(sess[sid]) # "ok"
       THEN last' = Call("write", sid, rw_check(sess[sid])) /\ UNCHANGED <<sess, fds>>
       ELSE IF fh \notin DOMAIN fds \/ ~fds[fh].wr
       THEN last' = Call("write", sid, "EBADF") /\ UNCHANGED <<sess, fds>>
       ELSE LET f == fds[fh]
                new == WrittenAt(FdData(f), offset, data)
                counted == [sess EXCEPT ![sid].bytes_rw = @ + CLen(data)] IN
            /\ IF f.orph # ""
               THEN /\ fds' = [k \in DOMAIN fds |->
                                 IF fds[k].orph = f.orph THEN [fds[k] EXCEPT !.data = new]
                                 ELSE fds[k]]
                    /\ sess' = counted
               ELSE /\ fds' = fds
                    /\ sess' = [counted EXCEPT ![f.sid].dir =
                                  Dir((f.path :> FileNode(new)) @@ sess[f.sid].dir.tree)]
            /\ last' = [Call("write", sid, "ok") EXCEPT !.num = CLen(data)]
    /\ Frame

\* ZilantFS.truncate
Truncate(sid, path, length) ==
    /\ Step /\ Live(sid)
    /\ \E d \in {sess[sid].dir}, p \in {Full(path)} :
       \E e \in {IF rw_check(sess[sid]) # "ok" THEN rw_check(sess[sid])
                ELSE IF LookupErr(d, p) # "ok" THEN LookupErr(d, p)
                ELSE IF IsDir(d.tree, p) THEN "EISDIR" ELSE "ok"} :
       /\ last' = Call("truncate", sid, e)
       /\ sess' = IF e # "ok" THEN sess
                  ELSE [sess EXCEPT ![sid].dir =
                          Dir((p :> FileNode(Truncated(d.tree[p].data, length))) @@ d.tree)]
    /\ UNCHANGED fds /\ Frame

\* ZilantFS.flush
Flush(sid, fh) ==
    /\ Step /\ Live(sid)
    /\ last' = Call("flush", sid, IF fh \in DOMAIN fds THEN "ok" ELSE "EBADF")
    /\ UNCHANGED <<sess, fds>> /\ Frame

\* ZilantFS.release
Release(sid, fh) ==
    /\ Step /\ Live(sid)
    /\ last' = Call("release", sid, IF fh \in DOMAIN fds THEN "ok" ELSE "EBADF")
    /\ fds' = [k \in DOMAIN fds \ {fh} |-> fds[k]]
    /\ UNCHANGED sess /\ Frame

\* a tree without the entry at p
Without(t, p) == [q \in DOMAIN t \ {p} |-> t[q]]

\* ZilantFS.unlink
Unlink(sid, path) ==
    /\ Step /\ Live(sid)
    /\ \E d \in {sess[sid].dir}, p \in {Full(path)} :
       \E e \in {IF rw_check(sess[sid]) # "ok" THEN rw_check(sess[sid])
                ELSE IF LookupErr(d, p) # "ok" THEN LookupErr(d, p)
                ELSE IF IsDir(d.tree, p) THEN "EISDIR" ELSE "ok"} :
       /\ last' = Call("unlink", sid, e)
       /\ sess' = IF e # "ok" THEN sess ELSE [sess EXCEPT ![sid].dir = Dir(Without(d.tree, p))]
       /\ fds' = IF e # "ok" THEN fds ELSE Detached(fds, sid, p, d.tree[p].data)
    /\ Frame

\* ZilantFS.mkdir
MkDir(sid, path) ==
    /\ Step /\ Live(sid)
    /\ \E d \in {sess[sid].dir}, p \in {Full(path)} :
       \E e \in {IF rw_check(sess[sid]) # "ok" THEN rw_check(sess[sid])
                ELSE IF ParentErr(d, p) # "ok" THEN ParentErr(d, p)
                ELSE IF Exists(d.tree, p) THEN "EEXIST" ELSE "ok"} :
       /\ last' = Call("mkdir", sid, e)
       /\ sess' = IF e # "ok" THEN sess
                  ELSE [sess EXCEPT ![sid].dir = Dir((p :> DirNode) @@ d.tree)]
    /\ UNCHANGED fds /\ Frame

\* ZilantFS.rmdir
RmDir(sid, path) ==
    /\ Step /\ Live(sid)
    /\ \E d \in {sess[sid].dir}, p \in {Full(path)} :
       \E e \in {IF rw_check(sess[sid]) # "ok" THEN rw_check(sess[sid])
                ELSE IF LookupErr(d, p) # "ok" THEN LookupErr(d, p)
                ELSE IF ~IsDir(d.tree, p) THEN "ENOTDIR"
                ELSE IF p = "" THEN "EBUSY"
                ELSE IF Children(d.tree, p) # {} THEN "ENOTEMPTY" ELSE "ok"} :
       /\ last' = Call("rmdir", sid, e)
       /\ sess' = IF e # "ok" THEN sess ELSE [sess EXCEPT ![sid].dir = Dir(Without(d.tree, p))]
    /\ UNCHANGED fds /\ Frame

\* a path below old, carried below new
Rebased(q, old, new) ==
    IF q = old THEN new
    ELSE IF StartsWith(q, old \o "/") THEN new \o SubSeq(q, Len(old) + 1, Len(q))
    ELSE q

\* the errno of os.rename(old, new) on staging directory d
RenameErr(d, old, new) ==
    IF LookupErr(d, old) # "ok" THEN LookupErr(d, old)
    ELSE IF ParentErr(d, new) # "ok" THEN ParentErr(d, new)
    ELSE IF old = "" \/ new = "" THEN "EBUSY"
    ELSE IF old = new THEN "ok"
    ELSE IF StartsWith(new, old \o "/") THEN "EINVAL"
    ELSE IF IsDir(d.tree, old) /\ IsFile(d.tree, new) THEN "ENOTDIR"
    ELSE IF IsFile(d.tree, old) /\ IsDir(d.tree, new) THEN "EISDIR"
    ELSE IF IsDir(d.tree, new) /\ Children(d.tree, new) # {} THEN "ENOTEMPTY"
    ELSE "ok"

\* the tree after a rename that succeeds: old and all below it move to new
Renamed(t, old, new) ==
    LET moved == {old} \cup Below(t, old)
        kept == (DOMAIN t \ moved) \ {new} IN
    [q \in kept \cup {Rebased(m, old, new) : m \in moved} |->
        IF q \in kept THEN t[q]
        ELSE t[CHOOSE m \in moved : Rebased(m, old, new) = q]]

\* ZilantFS.rename
Rename(sid, old, new) ==
    /\ Step /\ Live(sid)
    /\ \E d \in {sess[sid].dir}, o \in {Full(old)}, n \in {Full(new)} :
       \E e \in {IF rw_check(sess[sid]) # "ok" THEN rw_check(sess[sid])
                  ELSE RenameErr(d, o, n)} :
       \E over \in {IF e = "ok" /\ o # n /\ IsFile(d.tree, n)
                     THEN Detached(fds, sid, n, d.tree[n].data) ELSE fds} :
       /\ last' = Call("rename", sid, e)
       /\ sess' = IF e # "ok" \/ o = n THEN sess
                  ELSE [sess EXCEPT ![sid].dir = Dir(Renamed(d.tree, o, n))]
       /\ fds' = IF e # "ok" \/ o = n THEN fds
                 ELSE [k \in DOMAIN over |->
                         IF over[k].sid = sid /\ over[k].orph = ""
                         THEN [over[k] EXCEPT !.path = Rebased(@, o, n)] ELSE over[k]]
    /\ Frame

\* an accessor that reports and leaves the counter running
Throughput_keeps(sid) ==
    /\ Step /\ Live(sid)
    /\ last' = [Call("throughput_mb_s", sid, "ok") EXCEPT !.num = sess[sid].bytes_rw]
    /\ UNCHANGED <<sess, fds>> /\ Frame

\* ZilantFS.throughput_mb_s: the counter and the timer start again; num is the
\* byte count the quotient is taken of
Throughput(sid) ==
    /\ Step /\ Live(sid)
    /\ last' = [Call("throughput_mb_s", sid, "ok") EXCEPT !.num = sess[sid].bytes_rw]
    /\ sess' = [sess EXCEPT ![sid].bytes_rw = 0]
    /\ UNCHANGED fds /\ Frame

\* ------------------------------------------------------- snapshot_container
\* time passes, or not, before the call reads it
Snapshot(path, key, label) ==
    /\ Step
    /\ cdir
    /\ \E dt \in {0, 1} :
         /\ clock' = clock + dt
         /\ \E r \in {snapshot_container(disk, path, key, label, ToString(clock + dt))} :
            /\ Cardinality(DOMAIN r.disk) <= MaxFiles
            /\ disk' = r.disk
            /\ last' = [Call("snapshot_container", 0, r.err) EXCEPT !.names = {path, label}]
    /\ UNCHANGED <<cdir, sess, ACTIVE_FS, fds, stream, fifo, probe>>

\* ------------------------------------------------------------ environment
\* someone copies a container file
CopyFile(src, dst) ==
    /\ Step
    /\ src \in DOMAIN disk /\ dst \notin DOMAIN disk
    /\ Cardinality(DOMAIN disk) < MaxFiles
    /\ disk' = (dst :> disk[src]) @@ disk
    /\ last' = [Call("copy", 0, "ok") EXCEPT !.names = {src, dst}]
    /\ UNCHANGED <<cdir, sess, ACTIVE_FS, fds, stream, fifo, clock, probe>>

\* someone deletes a container file
DeleteFile(path) ==
    /\ Step
    /\ path \in DOMAIN disk
    /\ disk' = [q \in DOMAIN disk \ {path} |-> disk[q]]
    /\ last' = [Call("delete", 0, "ok") EXCEPT !.names = {path}]
    /\ UNCHANGED <<cdir, sess, ACTIVE_FS, fds, stream, fifo, clock, probe>>

\* someone removes the directory that holds the containers
RemoveDir ==
    /\ Step
    /\ cdir
    /\ cdir' = FALSE
    /\ disk' = [q \in {} |-> NoContainer]
    /\ last' = Call("rmtree", 0, "ok")
    /\ UNCHANGED <<sess, ACTIVE_FS, fds, stream, fifo, clock, probe>>

\* ------------------------------------------------------------------ inputs
Keys == {"k1", "k2"}
Labels == {"", "v1"}
Big == <<Run("x", SPARSE_LIMIT + 1)>>
SmallTree == ("a" :> FileNode(Text("hi")))
NestedTree == ("a" :> FileNode(Text("hi"))) @@ ("d" :> DirNode) @@ ("d/b" :> FileNode(Big))

NoProbe == [op |-> "none"]

\* the containers a run starts with: none, or "c" as pack_dir or (on this
\* platform) pack_dir_stream wrote it
InitDisks(ff) ==
    {[q \in {} |-> NoContainer],
     ("c" :> pack_dir(Dir(SmallTree), "k1", TRUE).c),
     ("c" :> pack_dir(Dir(NestedTree), "k1", TRUE).c),
     ("c" :> pack_dir_stream(Dir(NestedTree), "k1", TRUE, ff).c)}

Init ==
    /\ \E sf \in {<<FALSE, TRUE>>, <<TRUE, TRUE>>, <<TRUE, FALSE>>} :
          stream = sf[1] /\ fifo = sf[2]
    /\ disk \in InitDisks(fifo)
    /\ cdir = TRUE
    /\ sess = [i \in Sids |-> NoSession]
    /\ ACTIVE_FS = <<>>
    /\ fds = [k \in {} |-> Fd(0, "", FALSE, FALSE, FALSE)]
    /\ clock = 0
    /\ last = NoCall
    /\ steps = MaxSteps
    /\ probe = NoProbe

\* the constructor's arguments tried: key, decoy profile, force
MountArgs ==
    {<<"k1", NoneV, FALSE>>, <<"k1", NoneV, TRUE>>, <<"k1", "minimal", FALSE>>,
     <<"k1", "bogus", TRUE>>, <<"k2", NoneV, FALSE>>}

\* the life of containers and sessions
Next ==
    \/ \E sid \in Sids, path \in DOMAIN disk \cup {"c"}, a \in MountArgs :
          Mount(sid, path, a[1], a[2], a[3])
    \/ \E sid \in Sids : Destroy(sid)
    \/ \E sid \in Sids : Create(sid, "/n")
    \/ \E sid \in Sids : Unlink(sid, "/a")
    \/ \E path \in DOMAIN disk, label \in Labels : Snapshot(path, "k1", label)
    \/ \E path \in DOMAIN disk : Snapshot(path, "k2", "v1")
    \/ CopyFile("c", "bak")
    \/ DeleteFile("c")
    \/ RemoveDir

Spec == Init /\ [][Next]_vars

\* -------------------------------------------- the operations of a session
OpFlags == {Flags("r", FALSE, FALSE), Flags("rw", FALSE, FALSE), Flags("w", TRUE, TRUE)}
OpData == {Text("z"), Text("xy")}
OpOffsets == {0, 1}
OpLengths == {0, 3}
OpRenames == {<<"/a", "/n">>, <<"/a", "/d/b">>, <<"/d", "/n">>, <<"/d", "/a">>}

\* a session as the constructor leaves it
Session(path, c, password, decoy, force) ==
    LET r == Constructed(c, password, decoy, force) IN
    [made |-> TRUE, container |-> path, password |-> password, ro |-> r.ro,
     bytes_rw |-> 0, dir |-> Dir(r.tree), destroys |-> 0]

\* the sessions mounted on container "c" a run of operations starts with: a
\* writable one, the decoys, one degraded to read-only by a wrong key
OpSessions(c) ==
    {Session("c", c, "k1", NoneV, FALSE),
     Session("c", c, "k1", "minimal", FALSE),
     Session("c", c, "k1", "adaptive", FALSE),
     Session("c", c, "k2", NoneV, FALSE)}

InitOps ==
    /\ stream = FALSE
    /\ fifo = TRUE
    /\ disk = ("c" :> pack_dir(Dir(NestedTree), "k1", TRUE).c)
    /\ cdir = TRUE
    /\ \E s1 \in OpSessions(disk["c"]) :
          sess = [i \in Sids |-> IF i = 1 THEN s1 ELSE NoSession]
    /\ ACTIVE_FS = <<1>>
    /\ fds = [k \in {} |-> Fd(0, "", FALSE, FALSE, FALSE)]
    /\ clock = 0
    /\ last = NoCall
    /\ steps = MaxSteps
    /\ probe = NoProbe

NextOps ==
    \/ \E sid \in Sids, path \in {"/a", "/d", "/dummy.txt"} : GetAttr(sid, path)
    \/ \E sid \in Sids, path \in {"/", "/d"} : ReadDir(sid, path)
    \/ \E sid \in Sids, path \in {"/a", "/n"}, fl \in OpFlags : Open(sid, path, fl)
    \/ \E sid \in Sids : Open(sid, "/dummy.txt", Flags("r", FALSE, FALSE))
    \/ \E sid \in Sids, path \in {"/a", "/n"} : Create(sid, path)
    \/ \E sid \in Sids, offset \in OpOffsets, fh \in 1..MaxFds : Read(sid, 2, offset, fh)
    \/ \E sid \in Sids, data \in OpData, fh \in 1..MaxFds : Write(sid, data, 1, fh)
    \/ \E sid \in Sids, length \in OpLengths : Truncate(sid, "/a", length)
    \/ \E sid \in Sids, fh \in 1..MaxFds : Flush(sid, fh)
    \/ \E sid \in Sids, fh \in 1..MaxFds : Release(sid, fh)
    \/ \E sid \in Sids, path \in {"/a", "/d"} : Unlink(sid, path)
    \/ \E sid \in Sids, path \in {"/a", "/n"} : MkDir(sid, path)
    \/ \E sid \in Sids, path \in {"/a", "/d"} : RmDir(sid, path)
    \/ \E sid \in Sids, r \in OpRenames : Rename(sid, r[1], r[2])
    \/ \E sid \in Sids : Throughput(sid)
    \/ \E sid \in Sids : Destroy(sid)

SpecOps == InitOps /\ [][NextOps]_vars

\* ------------------------------------------- direct calls of the codec
\* probe holds the arguments of a run of direct calls and what the last
\* unpack_dir or diff_snapshots made of them
AtLimit == <<Run("y", SPARSE_LIMIT)>>
FileChoices == {<<>>, Text("hi"), Big, AtLimit, Zeros(SPARSE_LIMIT + 1)}

\* the trees packed: a, d and d/b, each there or not
PackTrees ==
    {EmptyTree, ("d" :> DirNode)}
    \cup {("a" :> FileNode(x)) : x \in FileChoices}
    \cup {("a" :> FileNode(x)) @@ ("d" :> DirNode) @@ ("d/b" :> FileNode(y)) :
             x \in {Text("hi"), Big}, y \in FileChoices}

PackProbe(t, k) ==
    [op |-> "input", tree |-> t, key |-> k, c |-> NoContainer, ukey |-> k, err |-> "ok",
     out |-> EmptyTree]

InitPack ==
    /\ stream = FALSE
    /\ fifo \in BOOLEAN
    /\ disk = [q \in {} |-> NoContainer]
    /\ cdir = TRUE
    /\ sess = [i \in Sids |-> NoSession]
    /\ ACTIVE_FS = <<>>
    /\ fds = [k \in {} |-> Fd(0, "", FALSE, FALSE, FALSE)]
    /\ clock = 0
    /\ last = NoCall
    /\ steps = MaxSteps
    /\ probe \in {PackProbe(t, k) : t \in PackTrees, k \in Keys}

\* pack_dir(src, "c", key) of the tree of the run
PackDir ==
    /\ Step
    /\ \E r \in {pack_dir(Dir(probe.tree), probe.key, cdir)} :
          /\ disk' = IF r.err = "ok" THEN ("c" :> r.c) @@ disk ELSE disk
          /\ last' = Call("pack_dir", 0, r.err)
    /\ UNCHANGED <<cdir, sess, ACTIVE_FS, fds, stream, fifo, clock, probe>>

\* pack_dir_stream(src, "c", key) of the tree of the run
PackDirStream ==
    /\ Step
    /\ \E r \in {pack_dir_stream(Dir(probe.tree), probe.key, cdir, fifo)} :
          /\ disk' = IF r.err = "ok" THEN ("c" :> r.c) @@ disk ELSE disk
          /\ last' = Call("pack_dir_stream", 0, r.err)
    /\ UNCHANGED <<cdir, sess, ACTIVE_FS, fds, stream, fifo, clock, probe>>

\* unpack_dir("c", dest, key) into an empty directory
UnpackDir(key) ==
    /\ Step
    /\ \E r \in {UnpackedTree(FileAt(disk, "c"), key)} :
          /\ probe' = [probe EXCEPT !.op = "unpack_dir", !.c = FileAt(disk, "c"),
                                     !.ukey = key, !.err = r.err, !.out = r.tree]
          /\ last' = Call("unpack_dir", 0, r.err)
    /\ UNCHANGED <<disk, cdir, sess, ACTIVE_FS, fds, stream, fifo, clock>>

NextPack ==
    \/ PackDir
    \/ PackDirStream
    \/ \E key \in Keys : UnpackDir(key)

SpecPack == InitPack /\ [][NextPack]_vars

\* two containers "a" and "b", each packed one way or the other, and diffed
DiffTrees ==
    {EmptyTree,
     ("d" :> DirNode),
     ("a" :> FileNode(Text("hi"))),
     ("a" :> FileNode(Big)),
     ("a" :> FileNode(Text("hi"))) @@ ("n" :> FileNode(<<>>)),
     ("a" :> FileNode(Text("ho"))) @@ ("d" :> DirNode) @@ ("d/b" :> FileNode(Text("hi"))),
     ("a" :> FileNode(Text("hi"))) @@ ("d" :> DirNode) @@ ("d/b" :> FileNode(Big))}

Packings(t, ff) ==
    {pack_dir(Dir(t), "k1", TRUE).c, pack_dir_stream(Dir(t), "k1", TRUE, ff).c}

DiffProbe(a, b, key, r) ==
    [op |-> "diff_snapshots", a |-> a, b |-> b, key |-> key, err |-> r.err, diff |-> r.diff]

InitDiff ==
    /\ stream = FALSE
    /\ fifo \in BOOLEAN
    /\ \E ta \in DiffTrees, tb \in DiffTrees :
       \E ca \in Packings(ta, fifo), cb \in Packings(tb, fifo) :
          disk = ("a" :> ca) @@ ("b" :> cb)
    /\ cdir = TRUE
    /\ sess = [i \in Sids |-> NoSession]
    /\ ACTIVE_FS = <<>>
    /\ fds = [k \in {} |-> Fd(0, "", FALSE, FALSE, FALSE)]
    /\ clock = 0
    /\ last = NoCall
    /\ steps = MaxSteps
    /\ probe = DiffProbe(NoContainer, NoContainer, "", [err |-> "none", diff |-> NoSnaps])

\* diff_snapshots(a, b, key)
Diff(a, b, key) ==
    /\ Step
    /\ \E r \in {diff_snapshots(FileAt(disk, a), FileAt(disk, b), key)} :
          /\ probe' = DiffProbe(FileAt(disk, a), FileAt(disk, b), key, r)
          /\ last' = [Call("diff_snapshots", 0, r.err) EXCEPT !.names = {a, b}]
    /\ UNCHANGED <<disk, cdir, sess, ACTIVE_FS, fds, stream, fifo, clock>>

NextDiff ==
    \E a \in {"a", "b"}, b \in {"a", "b"}, key \in Keys : Diff(a, b, key)

SpecDiff == InitDiff /\ [][NextDiff]_vars

\* a container whose header is short, exactly at the bound or one byte over
\* it, read and unpacked
HeaderLengths == {4, HEADER_LIMIT, HEADER_LIMIT + 1}

InitHeader ==
    /\ stream = FALSE
    /\ fifo \in BOOLEAN
    /\ probe \in {PackProbe(t, "k1") : t \in PackTrees}
    /\ \E c \in Packings(probe.tree, fifo), n \in HeaderLengths : disk = ("c" :> Padded(c, n))
    /\ cdir = TRUE
    /\ sess = [i \in Sids |-> NoSession]
    /\ ACTIVE_FS = <<>>
    /\ fds = [k \in {} |-> Fd(0, "", FALSE, FALSE, FALSE)]
    /\ clock = 0
    /\ last = NoCall
    /\ steps = MaxSteps

\* _read_meta("c"): it raises nothing; names holds the magic it returns
ReadMetaCall ==
    /\ Step
    /\ "c" \in DOMAIN disk
    /\ last' = [Call("_read_meta", 0, "ok") EXCEPT !.names = {ReadMeta(disk["c"]).magic}]
    /\ UNCHANGED <<disk, cdir, sess, ACTIVE_FS, fds, stream, fifo, clock, probe>>

NextHeader ==
    \/ ReadMetaCall
    \/ \E key \in Keys : UnpackDir(key)

SpecHeader == InitHeader /\ [][NextHeader]_vars

\* a container packed, snapshotted and packed over, directly or by the
\* teardown of a session mounted on it
SnapTrees ==
    {("a" :> FileNode(Text("hi"))),
     ("a" :> FileNode(Text("ho"))),
     ("a" :> FileNode(Text("hi"))) @@ ("d" :> DirNode) @@ ("d/b" :> FileNode(Big))}

InitSnap ==
    /\ \E sf \in {<<FALSE, TRUE>>, <<TRUE, TRUE>>, <<TRUE, FALSE>>} :
          stream = sf[1] /\ fifo = sf[2]
    /\ \E t \in SnapTrees : \E c \in Packings(t, fifo) : disk = ("c" :> c)
    /\ cdir = TRUE
    /\ sess = [i \in Sids |-> NoSession]
    /\ ACTIVE_FS = <<>>
    /\ fds = [k \in {} |-> Fd(0, "", FALSE, FALSE, FALSE)]
    /\ clock = 0
    /\ last = NoCall
    /\ steps = MaxSnapSteps
    /\ probe = NoProbe

\* pack_dir(src, "c", key) or pack_dir_stream(src, "c", key) of tree t
PackOver(t, streamed) ==
    /\ Step
    /\ \E r \in {IF streamed THEN pack_dir_stream(Dir(t), "k1", cdir, fifo)
                             ELSE pack_dir(Dir(t), "k1", cdir)} :
          /\ disk' = IF r.err = "ok" THEN ("c" :> r.c) @@ disk ELSE disk
          /\ last' = Call(IF streamed THEN "pack_dir_stream" ELSE "pack_dir", 0, r.err)
    /\ UNCHANGED <<cdir, sess, ACTIVE_FS, fds, stream, fifo, clock, probe>>

NextSnap ==
    \/ Snapshot("c", "k1", "v1")
    \/ \E t \in SnapTrees, streamed \in BOOLEAN : PackOver(t, streamed)
    \/ \E force \in BOOLEAN : Mount(1, "c", "k1", NoneV, force)
    \/ Create(1, "/n")
    \/ Unlink(1, "/a")
    \/ Destroy(1)

SpecSnap == InitSnap /\ [][NextSnap]_vars

\* an archive written by anyone who holds the key, unpacked into a directory
\* of a file system that holds more than that directory
ExtractNames ==
    {"a", "./d/b", "d/../a", "../escape.txt", "../rx/escape.txt", "../r/a", "/etc/x", ".."}

ExtractMembers ==
    {Member(n, "file", Text("x"), <<>>) : n \in ExtractNames \ {".."}}
    \cup {Member("..", "dir", <<>>, <<>>), Member("d", "dir", <<>>, <<>>)}

ExtractArchives ==
    {<<m>> : m \in ExtractMembers} \cup {<<m, n>> : m \in ExtractMembers, n \in ExtractMembers}

\* the file systems unpacked into: the directory "/t/r", alone or beside a
\* directory "/t/rx" and a file "/t/keep"
ExtractDisks ==
    {Planted(EmptyTree, "/t/r") @@ ("/t" :> DirNode) @@ ("/" :> DirNode),
     Planted(("a" :> FileNode(Text("old"))), "/t/r") @@ ("/t" :> DirNode) @@ ("/" :> DirNode)
        @@ ("/t/rx" :> DirNode) @@ ("/t/keep" :> FileNode(Text("k")))}

ExtractProbe(op, fs0, fs, err) == [op |-> op, dest |-> "/t/r", fs0 |-> fs0, fs |-> fs, err |-> err]

InitExtract ==
    /\ stream = FALSE
    /\ fifo = TRUE
    /\ \E ms \in ExtractArchives, magic \in {"ZILANT", "ZSTR"} :
          disk = ("c" :> IF magic = "ZSTR" THEN pack_stream(Archive(ms), "k1")
                                          ELSE pack_file(Archive(ms), "k1", NoExtra))
    /\ cdir = TRUE
    /\ sess = [i \in Sids |-> NoSession]
    /\ ACTIVE_FS = <<>>
    /\ fds = [k \in {} |-> Fd(0, "", FALSE, FALSE, FALSE)]
    /\ clock = 0
    /\ last = NoCall
    /\ steps = MaxSteps
    /\ \E fs \in ExtractDisks : probe = ExtractProbe("input", fs, fs, "ok")

\* unpack_dir("c", "/t/r", key) on the file system as the last call left it
UnpackInto(key) ==
    /\ Step
    /\ \E r \in {unpack_dir(FileAt(disk, "c"), probe.fs, probe.dest, key)} :
          /\ probe' = ExtractProbe("unpack_dir", probe.fs, r.fs, r.err)
          /\ last' = Call("unpack_dir", 0, r.err)
    /\ UNCHANGED <<disk, cdir, sess, ACTIVE_FS, fds, stream, fifo, clock>>

\* _safe_extract(tar, "/t/r") on the archive the container holds
SafeExtractCall ==
    /\ Step
    /\ \E r \in {SafeExtract(probe.fs, probe.dest, disk["c"].arc.members)} :
          /\ probe' = ExtractProbe("_safe_extract", probe.fs, r.fs, r.err)
          /\ last' = Call("_safe_extract", 0, r.err)
    /\ UNCHANGED <<disk, cdir, sess, ACTIVE_FS, fds, stream, fifo, clock>>

\* someone changes a byte of the encrypted region of container "c"
Tamper ==
    /\ Step
    /\ "c" \in DOMAIN disk /\ disk["c"].intact
    /\ disk' = [disk EXCEPT !["c"].intact = FALSE]
    /\ last' = [Call("tamper", 0, "ok") EXCEPT !.names = {"c"}]
    /\ UNCHANGED <<cdir, sess, ACTIVE_FS, fds, stream, fifo, clock, probe>>

NextExtract ==
    \/ \E key \in Keys : UnpackInto(key)
    \/ SafeExtractCall
    \/ Tamper
    \/ \E force \in BOOLEAN : Mount(1, "c", "k1", NoneV, force)

SpecExtract == InitExtract /\ [][NextExtract]_vars

\* ============================================== properties of the lifecycle
\* the constructor's arguments that name no unknown decoy profile
ValidDecoy(decoy) == decoy = NoneV \/ decoy \in DecoyNames

\* C1: mounting an existing container whose metadata declares a
\* latest_snapshot_id different from its label fails with the rollback error
\* when force is not given, and leaves the registry and the sessions as they
\* were; with force the same mount succeeds and registers the session; a
\* container whose latest_snapshot_id equals its label mounts without force.
C1_RollbackAtMount ==
    [][\A sid \in Sids, path \in DOMAIN disk, a \in MountArgs :
         Mount(sid, path, a[1], a[2], a[3]) =>
            \E m \in {get_metadata(disk[path])} :
               /\ (m.latest_snapshot_id # NoneV /\ m.latest_snapshot_id # m.label /\ ~a[3])
                     => (last'.err = "RollbackDetected" /\ ACTIVE_FS' = ACTIVE_FS /\ sess' = sess)
               /\ (m.latest_snapshot_id # NoneV /\ m.latest_snapshot_id # m.label
                      /\ a[3] /\ ValidDecoy(a[2]))
                     => (last'.err = "ok" /\ ACTIVE_FS' = Append(ACTIVE_FS, sid))
               /\ (m.latest_snapshot_id = m.label /\ ~a[3] /\ ValidDecoy(a[2]))
                     => (last'.err = "ok" /\ ACTIVE_FS' = Append(ACTIVE_FS, sid))]_vars

\* a session mounted without force on the source of a snapshot labelled ""
C1_EmptyLabelMounted ==
    \E sid \in Sids :
       /\ last.op = "mount" /\ last.sid = sid /\ last.err = "ok"
       /\ sess[sid].container \in DOMAIN disk
       /\ get_metadata(disk[sess[sid].container]).latest_snapshot_id = ""
       /\ get_metadata(disk[sess[sid].container]).label = NoneV

\* C12: a mount without decoy profile that passes the rollback test, of an
\* existing container that the key given does not open, returns: the session
\* is made with ro set and is appended to the registry.
C12_IntegrityFailureDegrades ==
    [][\A sid \in Sids, path \in DOMAIN disk, a \in MountArgs :
         (/\ Mount(sid, path, a[1], a[2], a[3])
          /\ a[2] = NoneV
          /\ ~RollbackDetected(get_metadata(disk[path]), a[3])
          /\ ~Opens(disk[path], a[1]))
            => /\ last'.err = "ok"
               /\ sess'[sid].made /\ sess'[sid].ro
               /\ ACTIVE_FS' = Append(ACTIVE_FS, sid)]_vars

\* a registered read-only session mounted with a key that does not open its
\* container
C12_DegradedMounted ==
    \E sid \in Sids :
       /\ last.op = "mount" /\ last.sid = sid /\ last.err = "ok"
       /\ sess[sid].made /\ sess[sid].ro /\ InList(ACTIVE_FS, sid)
       /\ sess[sid].container \in DOMAIN disk
       /\ ~Opens(disk[sess[sid].container], sess[sid].password)

\* C17: the registry ACTIVE_FS holds the sessions whose constructor returned
\* and that were not destroyed, each once, and nothing else: a mount that
\* raises adds nothing and a destroy takes out its own session only.
C17_RegistryInvariant ==
    /\ \A i, j \in 1..Len(ACTIVE_FS) : i # j => ACTIVE_FS[i] # ACTIVE_FS[j]
    /\ {ACTIVE_FS[i] : i \in 1..Len(ACTIVE_FS)}
          = {sid \in Sids : sess[sid].made /\ sess[sid].destroys = 0}

\* of two sessions mounted, the first has been destroyed and the second is
\* all the registry holds
C17_OneOfTwoLeft ==
    /\ last.op = "destroy" /\ last.sid = 1
    /\ sess[1].made /\ sess[1].destroys = 1
    /\ sess[2].made /\ sess[2].destroys = 0
    /\ ACTIVE_FS = <<2>>

\* C3: destroy raises nothing, releases the staging directory and deregisters
\* the session, also when the container's directory is gone; a second destroy
\* of a session leaves the containers and the registry as the first left them,
\* for either setting of ZILANT_STREAM.
C3_DestroyIdempotent ==
    [][\A sid \in Sids :
         Destroy(sid) =>
            /\ last'.err = "ok"
            /\ ~sess'[sid].dir.exists
            /\ ~InList(ACTIVE_FS', sid)
            /\ sess[sid].destroys >= 1 => (disk' = disk /\ ACTIVE_FS' = ACTIVE_FS)]_vars

\* a session destroyed twice whose container no longer unpacks to anything
C3_SecondDestroyWrote ==
    \E sid \in Sids :
       /\ sess[sid].destroys = 2
       /\ last.op = "destroy"
       /\ sess[sid].container \in DOMAIN disk
       /\ UnpackedTree(disk[sess[sid].container], sess[sid].password).tree = EmptyTree

\* C7: a label present in a container's snapshots mapping stays in it across
\* snapshots, mounts, operations and teardowns.
C7_SnapshotsAppendOnly ==
    [][\A p \in DOMAIN disk \cap DOMAIN disk' :
         DOMAIN get_metadata(disk[p]).snapshots
            \subseteq DOMAIN get_metadata(disk'[p]).snapshots]_vars

\* a container is a stale copy when it is no snapshot itself and another
\* container, the source of a snapshot, holds the same payload and a snapshots
\* mapping that has moved on from this one's
Stale(d, p) ==
    \E q \in DOMAIN d \ {p} :
       /\ get_metadata(d[p]).label = NoneV
       /\ d[q].arc = d[p].arc /\ d[q].key = d[p].key
       /\ get_metadata(d[q]).latest_snapshot_id # NoneV
       /\ get_metadata(d[q]).latest_snapshot_id # get_metadata(d[q]).label
       /\ DOMAIN get_metadata(d[p]).snapshots \subseteq DOMAIN get_metadata(d[q]).snapshots
       /\ DOMAIN get_metadata(d[p]).snapshots # DOMAIN get_metadata(d[q]).snapshots

\* C8: once a container has been snapshotted, mounting without force a copy of
\* it made before the snapshot (older or absent latest_snapshot_id) fails with
\* the rollback error.
C8_StaleCopyFlagged ==
    [][\A sid \in Sids, path \in DOMAIN disk, a \in MountArgs :
         (~a[3] /\ Stale(disk, path) /\ Mount(sid, path, a[1], a[2], a[3]))
            => last'.err = "RollbackDetected"]_vars

\* a pre-snapshot copy mounted without error
C8_StaleCopyMounted ==
    \E sid \in Sids :
       /\ last.op = "mount" /\ last.sid = sid /\ last.err = "ok"
       /\ sess[sid].container \in DOMAIN disk
       /\ Stale(disk, sess[sid].container)
       /\ get_metadata(disk[sess[sid].container]).latest_snapshot_id = NoneV

\* ============================================= properties of the operations
\* a write-class call of session sid, with the arguments the runs try
WriteClass(sid) ==
    \/ \E path \in {"/a", "/n"} : Create(sid, path)
    \/ \E data \in OpData, fh \in 1..MaxFds : Write(sid, data, 1, fh)
    \/ \E length \in OpLengths : Truncate(sid, "/a", length)
    \/ \E path \in {"/a", "/d"} : Unlink(sid, path)
    \/ \E path \in {"/a", "/n"} : MkDir(sid, path)
    \/ \E path \in {"/a", "/d"} : RmDir(sid, path)
    \/ \E r \in OpRenames : Rename(sid, r[1], r[2])

\* a query of session sid for something that is there
QueryOfExisting(sid) ==
    \/ \E path \in {"/a", "/d", "/dummy.txt"} :
          LookupErr(sess[sid].dir, Full(path)) = "ok" /\ GetAttr(sid, path)
    \/ \E path \in {"/", "/d"} :
          /\ LookupErr(sess[sid].dir, Full(path)) = "ok"
          /\ IsDir(sess[sid].dir.tree, Full(path))
          /\ ReadDir(sid, path)
    \/ \E offset \in OpOffsets, fh \in DOMAIN fds :
          fds[fh].rd /\ ~fds[fh].isdir /\ Read(sid, 2, offset, fh)

\* C2: on a read-only session create, write, truncate, unlink, mkdir, rmdir
\* and rename fail with EACCES and change neither the staging directory, the
\* byte counter, the descriptors, the registry nor the containers; after such
\* a refusal getattr, readdir and read of what exists still succeed.
C2_ReadOnlyRefuses ==
    [][\A sid \in Sids :
         /\ (sess[sid].ro /\ WriteClass(sid))
               => (last'.err = "EACCES" /\ sess' = sess /\ fds' = fds
                   /\ ACTIVE_FS' = ACTIVE_FS /\ disk' = disk)
         /\ (sess[sid].ro /\ last.err = "EACCES" /\ last.sid = sid /\ QueryOfExisting(sid))
               => last'.err = "ok"]_vars

\* a read-only session holding an open descriptor has just refused a write
C2_WriteRefused ==
    /\ last.op = "write" /\ last.err = "EACCES"
    /\ sess[last.sid].ro /\ sess[last.sid].dir.exists
    /\ \E fh \in DOMAIN fds : fds[fh].sid = last.sid /\ fds[fh].rd

\* C18: a session that is read-only stays read-only whatever is called on
\* it, and no call on it, its teardown included, writes its container: the
\* container files stay as they were when it was mounted.
C18_ReadOnlyForLife ==
    [][\A sid \in Sids :
         (sess[sid].made /\ sess[sid].ro /\ last'.sid = sid)
            => (sess'[sid].made /\ sess'[sid].ro /\ disk' = disk)]_vars

\* a read-only session whose staging directory was there has been torn down
\* after a call, and the container is the one it was mounted on
C18_ReadOnlyTornDown ==
    \E sid \in Sids :
       /\ last.op = "destroy" /\ last.sid = sid
       /\ sess[sid].ro /\ sess[sid].destroys = 1
       /\ steps = MaxSteps - 2
       /\ disk = ("c" :> pack_dir(Dir(NestedTree), "k1", TRUE).c)

\* C20: on a read-only session no call short of its teardown, open with
\* write, create or truncate flags included, changes what the staging
\* directory holds.
C20_ReadOnlyStagingFrozen ==
    [][\A sid \in Sids :
         (sess[sid].made /\ sess[sid].ro /\ last'.sid = sid /\ last'.op # "destroy")
            => sess'[sid].dir = sess[sid].dir]_vars

\* open with create and truncate flags has returned a descriptor on a
\* read-only session, whose staging directory now holds a new file
C20_OpenCreatedFile ==
    \E sid \in Sids :
       /\ last.op = "open" /\ last.sid = sid /\ last.err = "ok"
       /\ sess[sid].made /\ sess[sid].ro
       /\ last.num \in DOMAIN fds /\ fds[last.num].wr
       /\ IsFile(sess[sid].dir.tree, "n")

\* C13: the byte counter of a session grows by the length of what a read of
\* the session returns and by the length of what a write of it accepts, by
\* nothing on a call that raises (a write refused on a read-only session
\* included) and on every other call of any session; throughput_mb_s reports
\* it and leaves it 0.
C13_ByteCounter ==
    [][\A sid \in Sids :
         /\ \A offset \in OpOffsets, fh \in 1..MaxFds :
               Read(sid, 2, offset, fh)
                  => sess'[sid].bytes_rw
                        = sess[sid].bytes_rw
                          + (IF last'.err = "ok" THEN CLen(last'.data) ELSE 0)
         /\ \A data \in OpData, fh \in 1..MaxFds :
               Write(sid, data, 1, fh)
                  => /\ sess'[sid].bytes_rw
                          = sess[sid].bytes_rw + (IF last'.err = "ok" THEN CLen(data) ELSE 0)
                     /\ sess[sid].ro => (last'.err = "EACCES"
                                          /\ sess'[sid].bytes_rw = sess[sid].bytes_rw)
         /\ Throughput(sid)
               => (last'.num = sess[sid].bytes_rw /\ sess'[sid].bytes_rw = 0)
         /\ (last'.sid # sid \/ last'.op \notin {"read", "write", "throughput_mb_s"})
               => sess'[sid].bytes_rw = sess[sid].bytes_rw]_vars

\* throughput_mb_s has reported the two bytes a call moved through an open
\* descriptor, and the counter is 0
C13_CounterReset ==
    \E sid \in Sids :
       /\ last.op = "throughput_mb_s" /\ last.sid = sid
       /\ last.num = 2
       /\ sess[sid].bytes_rw = 0
       /\ \E fh \in DOMAIN fds : fds[fh].sid = sid

\* ================================================== properties of the codec
\* the members of an archive that are sparse placeholders, by path below the root
Placeholders(arc) ==
    {NormRel(arc.members[i].name) : i \in {j \in 1..Len(arc.members) : arc.members[j].sparse # <<>>}}

\* tree t with every placeholder of arc read as zero bytes of the file's size
WithZeros(t, arc) ==
    [p \in DOMAIN t |->
        IF t[p].kind = "file" /\ p \in Placeholders(arc)
        THEN FileNode(Zeros(CLen(t[p].data))) ELSE t[p]]

\* C4: unpack_dir, with the key it was packed with, of what pack_dir or
\* pack_dir_stream made of a tree returns the tree into an empty directory:
\* the same paths, every file's content, but zero bytes of the file's size
\* for the files the archive holds as sparse placeholders; whichever call
\* packed the container, unpack_dir takes the decoder that opens it.
C4_RoundTrip ==
    (probe.op = "unpack_dir" /\ IsFileC(probe.c) /\ probe.ukey = probe.key)
       => /\ probe.err = "ok"
          /\ probe.out = WithZeros(probe.tree, probe.c.arc)
          /\ (get_metadata(probe.c).magic = "ZSTR") = (probe.c.fmt = "str")

\* a streamed container unpacked: a file of content came back as zero bytes,
\* another with its content
C4_SparseRestored ==
    /\ probe.op = "unpack_dir" /\ probe.err = "ok" /\ probe.ukey = probe.key
    /\ probe.c.fmt = "str"
    /\ \E p \in DOMAIN probe.tree : probe.out[p] # probe.tree[p]
    /\ \E p \in DOMAIN probe.tree : probe.tree[p].kind = "file" /\ probe.out[p] = probe.tree[p]

\* the members an archive holds for the file at path p below the root
MembersOf(arc, p) ==
    {arc.members[i] : i \in {j \in 1..Len(arc.members) : NormRel(arc.members[j].name) = p}}

\* C14: in a container pack_dir_stream built through its own archive loop, a
\* file of at most 1 MiB (exactly 1 MiB included) is stored with its content
\* and without ZIL_SPARSE_SIZE, and a file of more is stored as a member
\* without content carrying ZIL_SPARSE_SIZE = its size, not with its content;
\* unpack_dir restores the first as it was and the second as zero bytes of
\* its size.
C14_SparseThreshold ==
    (probe.op = "unpack_dir" /\ probe.c.fmt = "str" /\ ~fifo /\ probe.ukey = probe.key)
       => /\ probe.err = "ok"
          /\ \A p \in {q \in DOMAIN probe.tree : probe.tree[q].kind = "file"} :
                \E data \in {probe.tree[p].data} :
                   /\ MembersOf(probe.c.arc, p) # {}
                   /\ CLen(data) <= SPARSE_LIMIT
                         => /\ \A m \in MembersOf(probe.c.arc, p) :
                                  m.data = data /\ m.sparse = <<>>
                            /\ probe.out[p] = FileNode(data)
                   /\ CLen(data) > SPARSE_LIMIT
                         => /\ \A m \in MembersOf(probe.c.arc, p) :
                                  m.data = <<>> /\ m.sparse = <<CLen(data)>>
                            /\ CLen(probe.out[p].data) = CLen(data)
                            /\ probe.out[p] = FileNode(Zeros(CLen(data)))

\* a container built by the archive loop holds a file of more than 1 MiB
\* twice, with its content and as a placeholder, and unpacks to zero bytes
C14_StoredWholeToo ==
    /\ probe.op = "unpack_dir" /\ probe.c.fmt = "str" /\ ~fifo /\ probe.err = "ok"
    /\ \E p \in DOMAIN probe.tree :
          /\ probe.tree[p].kind = "file" /\ CLen(probe.tree[p].data) = SPARSE_LIMIT + 1
          /\ \E m \in MembersOf(probe.c.arc, p) : m.data = probe.tree[p].data
          /\ \E m \in MembersOf(probe.c.arc, p) : m.sparse = <<SPARSE_LIMIT + 1>>
          /\ probe.out[p] = FileNode(Zeros(SPARSE_LIMIT + 1))

\* C19: a container whose header has no terminator within its first 4096
\* bytes is rejected with a format error where it is read for unpacking: the
\* header read raises it, not returning empty metadata, and so unpack_dir
\* ends with it.
C19_LongHeaderRejected ==
    /\ (probe.op = "unpack_dir" /\ probe.c.hlen > HEADER_LIMIT) => probe.err = "FormatError"
    /\ (last.op = "_read_meta" /\ disk["c"].hlen > HEADER_LIMIT) => last.err = "FormatError"

\* _read_meta has returned empty metadata for a streamed container whose
\* header is one byte over the bound
C19_LongHeaderReadAsEmpty ==
    /\ last.op = "_read_meta" /\ last.err = "ok" /\ last.names = {NoneV}
    /\ disk["c"].hlen = HEADER_LIMIT + 1
    /\ disk["c"].meta.magic = "ZSTR"

\* the digest of the file at path n of tree t, "" where there is no file
FileHash(t, n) == IF n \in DOMAIN t /\ t[n].kind = "file" THEN Hash(t[n].data) ELSE NoHash

\* the paths that are a file in one tree and not the same file in the other
ChangedPaths(t1, t2) ==
    {n \in DOMAIN t1 \cup DOMAIN t2 :
        \/ IsFile(t1, n) # IsFile(t2, n)
        \/ (IsFile(t1, n) /\ IsFile(t2, n) /\ t1[n].data # t2[n].data)}

\* C9: the mapping diff_snapshots(a, b, key) returns has as keys exactly the
\* paths whose file content differs between what a and b unpack to, a path on
\* one side only included; each value is the pair of digests, "" for the
\* missing side; a container against itself gives the empty mapping, and a
\* and b swapped give the same keys with the pairs swapped.
C9_DiffMapping ==
    (probe.op = "diff_snapshots" /\ probe.err = "ok")
       => \E ta \in {UnpackedTree(probe.a, probe.key).tree},
             tb \in {UnpackedTree(probe.b, probe.key).tree},
             back \in {diff_snapshots(probe.b, probe.a, probe.key)} :
             /\ DOMAIN probe.diff = ChangedPaths(ta, tb)
             /\ \A n \in DOMAIN probe.diff :
                   probe.diff[n] = <<FileHash(ta, n), FileHash(tb, n)>>
             /\ (probe.a = probe.b => probe.diff = NoSnaps)
             /\ back.err = "ok"
             /\ DOMAIN back.diff = DOMAIN probe.diff
             /\ \A n \in DOMAIN probe.diff :
                   back.diff[n] = <<probe.diff[n][2], probe.diff[n][1]>>

\* a diff that holds a path of the first side only, one of the second side
\* only and one of both
C9_AllThreeCases ==
    /\ probe.op = "diff_snapshots" /\ probe.err = "ok"
    /\ \E n \in DOMAIN probe.diff : probe.diff[n][1] = NoHash
    /\ \E n \in DOMAIN probe.diff : probe.diff[n][2] = NoHash
    /\ \E n \in DOMAIN probe.diff : probe.diff[n][1] # NoHash /\ probe.diff[n][2] # NoHash

\* path q is the directory root or lies below it, component by component
Descends(root, q) ==
    \E sr \in {Split(root)}, sq \in {Split(q)} :
       Len(sr) <= Len(sq) /\ SubSeq(sq, 1, Len(sr)) = sr

\* C5: _safe_extract and unpack_dir leave everything outside the destination
\* root as it was: nothing there is created or changed, an entry whose
\* resolved target is no descendant of the resolved root (a sibling of the
\* root included) is not written, and the extraction it is part of ends with
\* the path-traversal error.
C5_NothingOutsideRoot ==
    (probe.op \in {"unpack_dir", "_safe_extract"})
       => /\ \A q \in DOMAIN probe.fs :
                ~Descends(Resolve(probe.dest), q)
                   => (q \in DOMAIN probe.fs0 /\ probe.fs[q] = probe.fs0[q])
          /\ (\E i \in 1..Len(disk["c"].arc.members) :
                 ~Descends(Resolve(probe.dest),
                           Resolve(PathJoin(probe.dest, disk["c"].arc.members[i].name))))
                => probe.err \in {"PathTraversal", "ValueError"}

\* an extraction that returned and left a new file beside the root
C5_WrittenBesideRoot ==
    /\ probe.op = "unpack_dir" /\ probe.err = "ok"
    /\ "/t/rx/escape.txt" \in DOMAIN probe.fs
    /\ "/t/rx/escape.txt" \notin DOMAIN probe.fs0

\* C11: unpack_dir with another key than the container was sealed with, or of
\* a container whose encrypted region was changed, raises the decoder's
\* failure as an error (ValueError) and leaves the destination, and all the
\* file system, as it was.
C11_BadKeyOrTamperedFails ==
    [][\A key \in Keys :
         (UnpackInto(key) /\ ~Opens(FileAt(disk, "c"), key))
            => (probe'.err = "ValueError" /\ probe'.fs = probe.fs)]_vars

\* unpack_dir with the right key of a container changed after it was packed
\* has raised, the destination holding what it held
C11_TamperedRefused ==
    /\ probe.op = "unpack_dir" /\ probe.err = "ValueError"
    /\ ~disk["c"].intact /\ disk["c"].key = "k1"
    /\ last.op = "unpack_dir"
    /\ probe.fs = probe.fs0 /\ "/t/r/a" \in DOMAIN probe.fs

\* unpack_dir of container c into a fresh staging directory ends with the
\* path-traversal error
TraversalAtMount(c, key) ==
    unpack_dir(c, Planted(EmptyTree, "/m"), "/m", key).err = "PathTraversal"

\* C16: a mount of a container whose extraction raises the path-traversal
\* error fails with that error: no session is made and none is registered.
C16_TraversalFatalAtMount ==
    [][\A force \in BOOLEAN :
         (Mount(1, "c", "k1", NoneV, force) /\ TraversalAtMount(FileAt(disk, "c"), "k1"))
            => (last'.err = "PathTraversal" /\ sess' = sess /\ ACTIVE_FS' = ACTIVE_FS)]_vars

\* a read-only session registered on a container whose extraction raises
\* the path-traversal error
C16_TraversalRecovered ==
    /\ last.op = "mount" /\ last.err = "ok"
    /\ sess[1].made /\ sess[1].ro /\ InList(ACTIVE_FS, 1)
    /\ TraversalAtMount(disk["c"], sess[1].password)

MountErr(c, key) == Constructed(c, key, NoneV, FALSE).err

\* C21: after snapshot_container(c, key, L) has returned on a source whose
\* label is not L, the snapshot mounts without force and the source does
\* not: every mount of it without force, as long as it carries the header the
\* snapshot left, fails with the rollback error.
C21_SourceNeedsForce ==
    [][/\ \A path \in DOMAIN disk, key \in Keys, label \in Labels :
            (/\ Snapshot(path, key, label)
             /\ last'.err = "ok"
             /\ get_metadata(disk[path]).label # label)
               => /\ MountErr(disk'[SnapPath(path, label)], key) = "ok"
                  /\ MountErr(disk'[path], key) = "RollbackDetected"
       /\ \A sid \in Sids, path \in DOMAIN disk, a \in MountArgs :
            (/\ Mount(sid, path, a[1], a[2], a[3])
             /\ ~a[3]
             /\ get_metadata(disk[path]).latest_snapshot_id # NoneV
             /\ get_metadata(disk[path]).label # get_metadata(disk[path]).latest_snapshot_id)
               => (last'.err = "RollbackDetected" /\ sess' = sess)]_vars

\* the source of a snapshot that was taken with the empty label, the
\* snapshot being there, has been mounted without force
C21_SourceMountedUnforced ==
    \E sid \in Sids :
       /\ last.op = "mount" /\ last.sid = sid /\ last.err = "ok"
       /\ sess[sid].made /\ sess[sid].container = "c"
       /\ "c" \in DOMAIN disk /\ SnapPath("c", "") \in DOMAIN disk
       /\ get_metadata(disk[SnapPath("c", "")]).label = ""
       /\ "" \in DOMAIN get_metadata(disk["c"]).snapshots
       /\ get_metadata(disk["c"]).label # get_metadata(disk["c"]).latest_snapshot_id

\* what a container unpacks to
Content(c) == UnpackedTree(c, "k1").tree

\* the diff of the snapshot and the container after a step is the paths that
\* differ between trees t1 and t2
DiffIs(t1, t2) ==
    \E r \in {diff_snapshots(disk'["c_v1"], disk'["c"], "k1")} :
       r.err = "ok" /\ DOMAIN r.diff = ChangedPaths(t1, t2)

\* the teardown of session sid packs its staging directory into "c"
TeardownPacks(sid) ==
    /\ Destroy(sid)
    /\ ~sess[sid].ro /\ sess[sid].dir.exists /\ sess[sid].container = "c"

\* the snapshot "c_v1" of a container that unpacks holds what "c" held when
\* it was taken
SnapshotCopies ==
    (Snapshot("c", "k1", "v1") /\ UnpackedTree(FileAt(disk, "c"), "k1").err = "ok")
       => ("c_v1" \in DOMAIN disk' /\ Content(disk'["c_v1"]) = Content(disk["c"]))

\* C10, as stated: the snapshot is a copy of what the container held, a later
\* pack of tree T2 over the container, direct or by teardown, leaves the
\* snapshot as it was, and diff_snapshots(snapshot, container) then has as
\* keys exactly the paths whose content differs between the snapshot's tree
\* and T2.
C10_DiffOfPackedTree ==
    [][/\ SnapshotCopies
       /\ ("c_v1" \in DOMAIN disk /\ "c" \in DOMAIN disk)
             => /\ \A t \in SnapTrees, streamed \in BOOLEAN :
                      PackOver(t, streamed)
                         => (disk'["c_v1"] = disk["c_v1"] /\ DiffIs(Content(disk["c_v1"]), t))
                /\ \A sid \in Sids :
                      TeardownPacks(sid)
                         => (disk'["c_v1"] = disk["c_v1"]
                             /\ DiffIs(Content(disk["c_v1"]), sess[sid].dir.tree))]_vars

\* C10, amended: the same, with T2 taken as unpack_dir restores it, a file
\* archived as a sparse placeholder counting as zero bytes of its size.
C10_DiffOfRestoredTree ==
    [][/\ SnapshotCopies
       /\ ("c_v1" \in DOMAIN disk /\ "c" \in DOMAIN disk)
             => /\ \A t \in SnapTrees, streamed \in BOOLEAN :
                      PackOver(t, streamed)
                         => (disk'["c_v1"] = disk["c_v1"]
                             /\ DiffIs(Content(disk["c_v1"]), WithZeros(t, disk'["c"].arc)))
                /\ \A sid \in Sids :
                      TeardownPacks(sid)
                         => (disk'["c_v1"] = disk["c_v1"]
                             /\ DiffIs(Content(disk["c_v1"]),
                                       WithZeros(sess[sid].dir.tree, disk'["c"].arc)))]_vars

\* a session's teardown has packed a changed tree over a snapshotted
\* container, and the diff with the snapshot is not empty
C10_TeardownAfterSnapshot ==
    /\ last.op = "destroy" /\ last.err = "ok"
    /\ "c_v1" \in DOMAIN disk /\ "c" \in DOMAIN disk
    /\ get_metadata(disk["c_v1"]).label = "v1"
    /\ sess[1].made /\ ~sess[1].ro /\ sess[1].destroys = 1
    /\ diff_snapshots(disk["c_v1"], disk["c"], "k1").err = "ok"
    /\ diff_snapshots(disk["c_v1"], disk["c"], "k1").diff # NoSnaps

\* ============================================== properties of persistence
\* the first teardown of a writable session whose staging directory is there,
\* the directory of the containers being there too
WritableTeardown(sid) ==
    /\ Destroy(sid)
    /\ ~sess[sid].ro /\ sess[sid].dir.exists /\ sess[sid].destroys = 0
    /\ cdir

\* after a step the container of session sid is there, and a mount of it
\* with the session's key, without decoy profile and without force, gives a
\* writable session whose staging directory holds tree t
RemountGives(sid, t) ==
    /\ sess[sid].container \in DOMAIN disk'
    /\ \E r \in {Constructed(disk'[sess[sid].container], sess[sid].password, NoneV, FALSE)} :
          r.err = "ok" /\ ~r.ro /\ r.tree = t

\* C15, as stated: after the teardown of a writable session, mounted on a
\* container that existed or on a path where none did, the container exists
\* and a new mount of it with the same key starts with the staging tree the
\* session had at the teardown.
C15_PersistsExactly ==
    [][\A sid \in Sids :
         WritableTeardown(sid) => RemountGives(sid, sess[sid].dir.tree)]_vars

\* C15, amended: the same, the new mount starting with the session's tree as
\* unpack_dir restores it: a file the teardown archived as a sparse
\* placeholder comes back as zero bytes of its size.
C15_PersistsAsRestored ==
    [][\A sid \in Sids :
         WritableTeardown(sid)
            => RemountGives(sid, WithZeros(sess[sid].dir.tree,
                                           FileAt(disk', sess[sid].container).arc))]_vars

\* a writable session has created a file and been torn down, and its
\* container unpacks to a tree with that file
C15_CreatedFilePersisted ==
    \E sid \in Sids :
       /\ last.op = "destroy" /\ last.sid = sid /\ last.err = "ok"
       /\ sess[sid].destroys = 1 /\ ~sess[sid].ro
       /\ sess[sid].container \in DOMAIN disk
       /\ \E r \in {Constructed(disk[sess[sid].container], sess[sid].password, NoneV, FALSE)} :
             r.err = "ok" /\ ~r.ro /\ r.tree = ("n" :> FileNode(<<>>))

====
